---- MODULE Spec2Model ----
(***************************************************************************)
(* A model of the political chatbot agent: the confidence calibration      *)
(* arithmetic, the conversation-flow bookkeeping and the message pipeline  *)
(* of PoliticalChatbotAgent (agent.py) with its external calls.            *)
(***************************************************************************)
EXTENDS Integers, Sequences, FiniteSets, TLC

(***************************************************************************)
(* Bounds of the model.                                                    *)
(***************************************************************************)
\* largest age in days given to calculate_confidence
MaxAge == 200

(***************************************************************************)
(* Python floats.  Every float the program computes is an IEEE-754 double  *)
(* that is a whole multiple of 2^-56: the literals 0.1 .. 0.9 are, a sum   *)
(* of two multiples is one, and rounding to 53 significant bits keeps it   *)
(* one (a sum below 2^-3 is exact).  A float is modelled exactly as the    *)
(* pair <<hi, lo>> standing for (hi * 2^28 + lo) * 2^-56, 0 <= lo < 2^28,  *)
(* hi < 0 for a negative number; addition rounds to nearest, ties to even, *)
(* as the hardware does.                                                   *)
(***************************************************************************)
Limb == 2^28

F0 == <<0, 0>>
F01 == <<26843545, 161061274>>
F02 == <<53687091, 53687092>>
F03 == <<80530636, 214748364>>
F04 == <<107374182, 107374184>>
F05 == <<134217728, 0>>
F06 == <<161061273, 161061272>>
F07 == <<187904819, 53687088>>
F08 == <<214748364, 214748368>>
F09 == <<241591910, 107374184>>
F1 == <<268435456, 0>>

Norm(h, l) == <<h + (l \div Limb), l % Limb>>

FNeg(a) == IF a[2] = 0 THEN <<-a[1], 0>> ELSE <<-a[1] - 1, Limb - a[2]>>

FLess(a, b) == a[1] < b[1] \/ (a[1] = b[1] /\ a[2] < b[2])

FLeq(a, b) == a = b \/ FLess(a, b)

\* the spacing of doubles around the magnitude m, in units of 2^-56
Granule(m) ==
    IF m[1] < 2^25 THEN 1
    ELSE IF m[1] < 2^26 THEN 2
    ELSE IF m[1] < 2^27 THEN 4
    ELSE IF m[1] < 2^28 THEN 8
    ELSE 16

\* round a magnitude to the nearest double, ties to the even one
RoundMag(m) ==
    LET g == Granule(m)
        r == m[2] % g
        q == m[2] \div g
        down == <<m[1], m[2] - r>>
        up == Norm(m[1], m[2] - r + g)
    IN  IF 2 * r < g THEN down
        ELSE IF 2 * r > g THEN up
        ELSE IF q % 2 = 0 THEN down ELSE up

FRound(n) == IF n[1] < 0 THEN FNeg(RoundMag(FNeg(n))) ELSE RoundMag(n)

FAdd(a, b) == FRound(Norm(a[1] + b[1], a[2] + b[2]))

FSub(a, b) == FAdd(a, FNeg(b))

\* Python's min(a, b) and max(a, b): the first argument wins a tie
PyMin(a, b) == IF FLess(b, a) THEN b ELSE a

PyMax(a, b) == IF FLess(a, b) THEN b ELSE a

(***************************************************************************)
(* UncertaintyCalibrator (hallucination_prevention.py)                     *)
(***************************************************************************)
SourceQualities == {"primary", "secondary", "analysis", "speculation", "unknown"}

ConsensusLevels == {"universal", "broad", "divided", "controversial", "unknown"}

Ages == 0..MaxAge

source_scores(source_quality) ==
    CASE source_quality = "primary" -> F09
      [] source_quality = "secondary" -> F07
      [] source_quality = "analysis" -> F05
      [] source_quality = "speculation" -> F03
      [] source_quality = "unknown" -> F02
      [] OTHER -> F05

\* temporal_factor with the ages 7, 30 and 180 in the less penalised bucket
temporal_factor_inclusive(temporal_relevance) ==
    IF temporal_relevance <= 7 THEN F0
    ELSE IF temporal_relevance <= 30 THEN FNeg(F01)
    ELSE IF temporal_relevance <= 180 THEN FNeg(F02)
    ELSE FNeg(F03)

\* temporal_factor with the penalties of the two middle age buckets exchanged
temporal_factor_exchanged(temporal_relevance) ==
    IF temporal_relevance < 7 THEN F0
    ELSE IF temporal_relevance < 30 THEN FNeg(F02)
    ELSE IF temporal_relevance < 180 THEN FNeg(F01)
    ELSE FNeg(F03)

temporal_factor(temporal_relevance) ==
    IF temporal_relevance < 7 THEN F0
    ELSE IF temporal_relevance < 30 THEN FNeg(F01)
    ELSE IF temporal_relevance < 180 THEN FNeg(F02)
    ELSE FNeg(F03)

consensus_adjustments(consensus_level) ==
    CASE consensus_level = "universal" -> F02
      [] consensus_level = "broad" -> F01
      [] consensus_level = "divided" -> FNeg(F01)
      [] consensus_level = "controversial" -> FNeg(F02)
      [] consensus_level = "unknown" -> F0
      [] OTHER -> F0

\* Clamp01 without the clamp
Clamp01_unclamped(x) == x

\* return max(0.0, min(1.0, confidence))
Clamp01(x) == PyMax(F0, PyMin(F1, x))

calculate_confidence(source_quality, temporal_relevance, consensus_level) ==
    Clamp01(FAdd(FAdd(source_scores(source_quality),
                      temporal_factor(temporal_relevance)),
                 consensus_adjustments(consensus_level)))

(***************************************************************************)
(* Text.  A text is a sequence of pieces, each piece a string the program  *)
(* never looks into (a literal of a template, a value put into an          *)
(* f-string, a sentence of a model reply); "" is the empty sequence, and   *)
(* concatenation is \o.  Where the program does look into a string (lower, *)
(* the substring test "in"), Text gives its characters.                    *)
(***************************************************************************)
\* s in text, for a piece s
HasPiece(text, s) == \E i \in 1..Len(text) : text[i] = s

\* Python's truth value of a str
Truthy(text) == text # <<>>

\* f"{confidence:.2f}" for 0 <= confidence <= 1: the exact value times 100,
\* rounded to the nearest whole number, ties to even
Hundredths(x) ==
    LET B == 2^14
        t0 == 100 * (x[2] % B)
        t1 == 100 * (x[2] \div B) + (t0 \div B)
        t2 == 100 * (x[1] % B) + (t1 \div B)
        t3 == 100 * (x[1] \div B) + (t2 \div B)
        whole == t3 \div B
        top == t3 % B
        rest == (t2 % B) + (t1 % B) + (t0 % B)
    IN  IF top > B \div 2 \/ (top = B \div 2 /\ rest > 0) THEN whole + 1
        ELSE IF top = B \div 2 /\ whole % 2 = 1 THEN whole + 1
        ELSE whole

Fmt2(x) ==
    LET h == Hundredths(x)
    IN  ToString(h \div 100) \o "." \o ToString((h % 100) \div 10) \o ToString(h % 10)

\* uncertainty_band that tests 0.6 before 0.8
uncertainty_band_unordered(confidence) ==
    IF FLess(F06, confidence)
      THEN [prefix |-> <<"Available evidence suggests that ">>, suffix |-> <<>>]
    ELSE IF FLess(F08, confidence)
      THEN [prefix |-> <<"Based on verified sources, ">>, suffix |-> <<>>]
    ELSE IF FLess(F04, confidence)
      THEN [prefix |-> <<"While there is some uncertainty, ">>,
            suffix |-> <<" (though this should be verified)">>]
    ELSE IF FLess(F02, confidence)
      THEN [prefix |-> <<"With limited confidence, it appears that ">>,
            suffix |-> <<" (this remains largely unconfirmed)">>]
    ELSE [prefix |-> <<"I cannot reliably confirm this, but ">>,
          suffix |-> <<" (please treat this as speculative)">>]

uncertainty_band(confidence) ==
    IF FLess(F08, confidence)
      THEN [prefix |-> <<"Based on verified sources, ">>, suffix |-> <<>>]
    ELSE IF FLess(F06, confidence)
      THEN [prefix |-> <<"Available evidence suggests that ">>, suffix |-> <<>>]
    ELSE IF FLess(F04, confidence)
      THEN [prefix |-> <<"While there is some uncertainty, ">>,
            suffix |-> <<" (though this should be verified)">>]
    ELSE IF FLess(F02, confidence)
      THEN [prefix |-> <<"With limited confidence, it appears that ">>,
            suffix |-> <<" (this remains largely unconfirmed)">>]
    ELSE [prefix |-> <<"I cannot reliably confirm this, but ">>,
          suffix |-> <<" (please treat this as speculative)">>]

express_uncertainty(confidence, statement) ==
    uncertainty_band(confidence).prefix \o statement \o uncertainty_band(confidence).suffix

(***************************************************************************)
(* Characters of the strings the program looks into.                       *)
(***************************************************************************)
QWeather == "What's the weather like today?"

QConfused == "Can you just answer the question?"

QNotAsked == "That's not what I asked"

Text(s) ==
    CASE s = QWeather ->
           <<"W", "h", "a", "t", "'", "s", " ", "t", "h", "e", " ", "w", "e", "a",
             "t", "h", "e", "r", " ", "l", "i", "k", "e", " ", "t", "o", "d", "a",
             "y", "?">>
      [] s = QConfused ->
           <<"C", "a", "n", " ", "y", "o", "u", " ", "j", "u", "s", "t", " ", "a",
             "n", "s", "w", "e", "r", " ", "t", "h", "e", " ", "q", "u", "e", "s",
             "t", "i", "o", "n", "?">>
      [] s = QNotAsked ->
           <<"T", "h", "a", "t", "'", "s", " ", "n", "o", "t", " ", "w", "h", "a",
             "t", " ", "I", " ", "a", "s", "k", "e", "d">>
      [] s = "general" -> <<"g", "e", "n", "e", "r", "a", "l">>
      [] s = "Policy" -> <<"P", "o", "l", "i", "c", "y">>
      [] s = "SUPREME_COURT" ->
           <<"S", "U", "P", "R", "E", "M", "E", "_", "C", "O", "U", "R", "T">>
      [] s = "supreme court" ->
           <<"s", "u", "p", "r", "e", "m", "e", " ", "c", "o", "u", "r", "t">>
      [] s = "elect" -> <<"e", "l", "e", "c", "t">>
      [] s = "ion" -> <<"i", "o", "n">>
      [] s = "election" -> <<"e", "l", "e", "c", "t", "i", "o", "n">>
      [] s = "policy" -> <<"p", "o", "l", "i", "c", "y">>
      [] s = "supreme_court" ->
           <<"s", "u", "p", "r", "e", "m", "e", "_", "c", "o", "u", "r", "t">>
      [] s = "don't understand" ->
           <<"d", "o", "n", "'", "t", " ", "u", "n", "d", "e", "r", "s", "t", "a",
             "n", "d">>
      [] s = "that's not what I asked" ->
           <<"t", "h", "a", "t", "'", "s", " ", "n", "o", "t", " ", "w", "h", "a",
             "t", " ", "I", " ", "a", "s", "k", "e", "d">>
      [] s = "can you just" ->
           <<"c", "a", "n", " ", "y", "o", "u", " ", "j", "u", "s", "t">>
      [] s = "why can't you" ->
           <<"w", "h", "y", " ", "c", "a", "n", "'", "t", " ", "y", "o", "u">>
      [] s = "this is frustrating" ->
           <<"t", "h", "i", "s", " ", "i", "s", " ", "f", "r", "u", "s", "t", "r",
             "a", "t", "i", "n", "g">>

\* str.lower() on the characters
LowerChar(c) ==
    CASE c = "C" -> "c"
      [] c = "E" -> "e"
      [] c = "I" -> "i"
      [] c = "M" -> "m"
      [] c = "O" -> "o"
      [] c = "P" -> "p"
      [] c = "R" -> "r"
      [] c = "S" -> "s"
      [] c = "T" -> "t"
      [] c = "U" -> "u"
      [] c = "W" -> "w"
      [] OTHER -> c

Lower(chars) == [i \in 1..Len(chars) |-> LowerChar(chars[i])]

\* needle in hay, on characters
Contains(needle, hay) ==
    \E i \in 0..(Len(hay) - Len(needle)) :
        \A j \in 1..Len(needle) : hay[i + j] = needle[j]

(***************************************************************************)
(* Replies of the external services.  A reply is what one call gives back: *)
(*   error    the call raised (network failure, API error)                 *)
(*   none     the call returned, message.content is None                   *)
(*   garbled  the content is text that json.loads (float, for the claim    *)
(*            assessment) cannot decode                                    *)
(*   json     the content decodes to an object with the keys `keys` and    *)
(*            the values of `obj` under them                               *)
(*   text     the content is free text (draft generation), in obj.text     *)
(*   number   the content is a number (claim assessment), in obj.number    *)
(***************************************************************************)
NoObj ==
    [in_scope |-> TRUE, confidence |-> F0, reasoning |-> "", scope_type |-> "",
     text |-> <<>>, list |-> <<>>, number |-> F0]

Reply(kind) == [kind |-> kind, keys |-> {}, obj |-> NoObj]

Failures == {Reply("error"), Reply("none"), Reply("garbled")}

\* the outcome of a try body: it raised, or it gave val
Raised == [exc |-> TRUE, val |-> NoObj, keys |-> {}]

Gave(keys, obj) == [exc |-> FALSE, val |-> obj, keys |-> keys]

\* json_loads that decodes text it cannot read to an empty object
json_loads_lenient(reply) ==
    IF reply.kind = "json" THEN Gave(reply.keys, reply.obj) ELSE Gave({}, NoObj)

\* json.loads(content) inside a try: raises on text it cannot decode
json_loads(reply) ==
    IF reply.kind = "json" THEN Gave(reply.keys, reply.obj) ELSE Raised

\* the common body of the JSON-consuming calls:
\*   response = openai.chat.completions.create(...)
\*   content = response.choices[0].message.content
\*   if content is None: raise ValueError(...)
\*   ... json.loads(content)
create_and_load(reply) ==
    IF reply.kind = "error" THEN Raised
    ELSE IF reply.kind = "none" THEN Raised
    ELSE json_loads(reply)

(***************************************************************************)
(* ConversationalIntelligence (boundary_management.py)                     *)
(***************************************************************************)
ScopeTypes == {"political_event", "political_analysis", "edge_case", "out_of_scope"}

ClassificationKeys == {"in_scope", "confidence", "reasoning", "scope_type"}

Classification(in_scope, confidence, reasoning, scope_type) ==
    [NoObj EXCEPT !.in_scope = in_scope, !.confidence = confidence,
                  !.reasoning = reasoning, !.scope_type = scope_type]

NoLLMClassification ==
    Gave(ClassificationKeys,
         Classification(TRUE, F05,
                        "Cannot perform deep semantic analysis without LLM",
                        "edge_case"))

FailedClassification ==
    Gave(ClassificationKeys,
         Classification(TRUE, F05,
                        "Classification failed, defaulting to attempt help",
                        "edge_case"))

\* classify_request, without an API key
classify_request_nokey == NoLLMClassification

\* classify_request whose fallback declares the request out of scope
classify_request_closed(reply) ==
    IF create_and_load(reply).exc
      THEN Gave(ClassificationKeys,
                Classification(FALSE, F05,
                               "Classification failed, defaulting to attempt help",
                               "out_of_scope"))
    ELSE create_and_load(reply)

\* classify_request, given the reply of its call: json.loads(content) is
\* returned as it is
classify_request(reply) ==
    IF create_and_load(reply).exc THEN FailedClassification
    ELSE create_and_load(reply)

\* the redirect text; needs classification['scope_type'], ['reasoning']
generate_graceful_redirect(query, classification) ==
    IF classification.scope_type = "out_of_scope"
      THEN <<"I understand you're asking about \"", query,
             "\". Based on my analysis, this appears to be outside my specific scope of political events and policy discussions. ",
             classification.reasoning,
             " I'm designed to provide balanced, multi-perspective analysis [...] Is there a political topic or event you'd like to explore?">>
    ELSE IF classification.scope_type = "edge_case"
      THEN <<"Your question about \"", query,
             "\" touches on areas that may be partially within my scope. ",
             classification.reasoning,
             " I can provide political context and analysis [...] What aspect would be most helpful for you?">>
    ELSE <<>>

confusion_signals ==
    <<"don't understand", "that's not what I asked", "can you just",
      "why can't you", "this is frustrating">>

\* the last n items of a list: lst[-n:]
LastN(lst, n) ==
    IF Len(lst) <= n THEN lst ELSE SubSeq(lst, Len(lst) - n + 1, Len(lst))

\* history holds the user messages of the (msg, reply) pairs
detect_conversation_breakdown(history, current_query) ==
    IF Len(history) < 2 THEN FALSE
    ELSE LET recent_messages == IF Len(history) >= 3 THEN LastN(history, 3) ELSE <<>>
             distinct == {recent_messages[i] : i \in 1..Len(recent_messages)}
         IN  IF Cardinality(distinct) = 1 /\ Len(recent_messages) > 1 THEN TRUE
             ELSE \E k \in 1..Len(confusion_signals) :
                     Contains(Text(confusion_signals[k]), Lower(Text(current_query)))

\* repair_conversation that has no text to give
repair_conversation_silent(history, issue_type) == <<>>

repair_conversation(history, issue_type) ==
    IF issue_type = "confusion"
      THEN <<"I sense there might be some confusion. Let me clarify what I can help with: [...] Could you rephrase your question or let me know which political topic interests you?">>
    ELSE IF issue_type = "repetition"
      THEN <<"I notice we might be going in circles. Let me try a different approach. [...] How can I best help you with political analysis today?">>
    ELSE <<"Let me help you with political analysis. What would you like to know?">>

(***************************************************************************)
(* ConversationFlowManager (boundary_management.py)                        *)
(***************************************************************************)
topic_relations ==
    << [key |-> "election",
        suggestions |-> <<"How do different voting systems work?",
                          "What are the key policy differences between parties?",
                          "How has campaign finance evolved?">>],
       [key |-> "policy",
        suggestions |-> <<"What are the main arguments for and against this policy?",
                          "How do similar policies work in other countries?",
                          "What are the implementation challenges?">>],
       [key |-> "supreme_court",
        suggestions |-> <<"How does the judicial nomination process work?",
                          "What are the different judicial philosophies?",
                          "How do court decisions impact policy?">>] >>

default_suggestions ==
    <<"What recent political development would you like to understand?",
      "Any policy debate you'd like analyzed from multiple angles?",
      "Questions about how political processes work?">>

\* suggest_next_topics that keeps looking after a key was found
suggest_next_topics_last(current_topic) ==
    LET hits == {k \in 1..Len(topic_relations) :
                    Contains(Text(topic_relations[k].key), Lower(current_topic))}
    IN  IF hits = {} THEN default_suggestions
        ELSE topic_relations[CHOOSE k \in hits : \A m \in hits : k >= m].suggestions

\* current_topic is the topic's characters; the loop over the dict returns
\* at the first key, in insertion order, found in current_topic.lower()
suggest_next_topics(current_topic) ==
    LET hits == {k \in 1..Len(topic_relations) :
                    Contains(Text(topic_relations[k].key), Lower(current_topic))}
    IN  IF hits = {} THEN default_suggestions
        ELSE topic_relations[CHOOSE k \in hits : \A m \in hits : k <= m].suggestions

\* engagement_after without the cap at 1.0
engagement_after_uncapped(engagement_score, success) ==
    IF success THEN FAdd(engagement_score, F01)
    ELSE PyMax(F0, FSub(engagement_score, F02))

\* engagement_after without the floor at 0.0
engagement_after_unfloored(engagement_score, success) ==
    IF success THEN PyMin(F1, FAdd(engagement_score, F01))
    ELSE FSub(engagement_score, F02)

\* engagement_after with the two amounts exchanged
engagement_after_exchanged(engagement_score, success) ==
    IF success THEN PyMin(F1, FAdd(engagement_score, F02))
    ELSE PyMax(F0, FSub(engagement_score, F01))

\* the new engagement score of update_flow_state
engagement_after(engagement_score, success) ==
    IF success THEN PyMin(F1, FAdd(engagement_score, F01))
    ELSE PyMax(F0, FSub(engagement_score, F02))

\* the record update_flow_state appends (its timestamp, which nothing
\* reads, is left out)
flow_record(query, response_type, success) ==
    [query |-> query, response_type |-> response_type, success |-> success]

update_flow_state(flow, query, response_type, success) ==
    [state_history |-> Append(flow.state_history,
                              flow_record(query, response_type, success)),
     engagement_score |-> engagement_after(flow.engagement_score, success)]

\* get_engagement_metrics: the score and the number of records (the success
\* rate and the topics are left out)
get_engagement_metrics(flow) ==
    [engagement_score |-> flow.engagement_score,
     total_interactions |-> Len(flow.state_history)]

(***************************************************************************)
(* BiasDetector (bias_mitigation.py)                                       *)
(***************************************************************************)
\* the try body of detect_mitigate_bias: analysis['neutralized_response'],
\* analysis['detected_biases'] raise KeyError on a missing key
bias_analysis(reply) ==
    LET analysis == create_and_load(reply)
    IN  IF analysis.exc THEN Raised
        ELSE IF "neutralized_response" \notin analysis.keys THEN Raised
        ELSE IF "detected_biases" \notin analysis.keys THEN Raised
        ELSE analysis

\* detect_mitigate_bias whose fallback reports a bias
detect_mitigate_bias_reporting(text, reply) ==
    IF bias_analysis(reply).exc THEN <<text, <<"analysis failed">>>>
    ELSE <<bias_analysis(reply).val.text, bias_analysis(reply).val.list>>

\* returns (mitigated text, detected biases)
detect_mitigate_bias(text, reply) ==
    IF bias_analysis(reply).exc THEN <<text, <<>>>>
    ELSE <<bias_analysis(reply).val.text, bias_analysis(reply).val.list>>

ensure_perspective_balance(topic, initial_response, reply) ==
    LET result == create_and_load(reply)
    IN  IF result.exc THEN initial_response
        ELSE IF "balanced_response" \in result.keys THEN result.val.text
        ELSE initial_response

(***************************************************************************)
(* InformationValidator, HallucinationPreventer                            *)
(* (hallucination_prevention.py)                                           *)
(***************************************************************************)
SearchUnavailable ==
    [success |-> FALSE, fallback |-> TRUE,
     message |-> "Search unavailable - using reasoning only",
     results |-> <<>>, answer |-> <<>>]

SearchFailed ==
    [success |-> FALSE, fallback |-> TRUE, message |-> "",
     results |-> <<>>, answer |-> <<>>]

\* search_information with a Tavily key, given the reply of its request:
\* an exception, a status other than 200, or 200 and a JSON body
search_information(reply) ==
    IF reply.kind = "json"
      THEN [success |-> TRUE, fallback |-> FALSE, message |-> "",
            results |-> IF "results" \in reply.keys THEN reply.obj.list ELSE <<>>,
            answer |-> IF "answer" \in reply.keys THEN reply.obj.text ELSE <<>>]
    ELSE SearchFailed

GapsNoKey ==
    [known_facts |-> <<>>, unknown_aspects |-> <<"API key required for reasoning">>,
     unknowable_aspects |-> <<>>]

GapsFailed ==
    [known_facts |-> <<>>, unknown_aspects |-> <<"Analysis failed">>,
     unknowable_aspects |-> <<>>]

reason_about_information_gaps(query, available_info, reply) ==
    LET parsed == create_and_load(reply)
    IN  IF parsed.exc THEN GapsFailed
        ELSE [known_facts |-> parsed.val.list, unknown_aspects |-> <<>>,
              unknowable_aspects |-> <<>>]

\* text.split('. ') filtered by len(s) > 20: the pieces of a text are its
\* sentences
split_sentences(text) == SelectSeq(text, LAMBDA s : Len(s) > 20)

extract_claims(text, reply) ==
    LET result == create_and_load(reply)
    IN  IF result.exc THEN split_sentences(text)
        ELSE IF "claims" \in result.keys THEN result.val.list
        ELSE <<>>

\* float(content.strip()) inside the try
assess_claim_confidence(reply) ==
    IF reply.kind = "number" THEN reply.obj.number ELSE F05

RECURSIVE ReplacePiece(_, _, _)
\* text.replace(claim, new)
ReplacePiece(text, claim, new) ==
    IF text = <<>> THEN <<>>
    ELSE (IF Head(text) = claim THEN new ELSE <<Head(text)>>)
         \o ReplacePiece(Tail(text), claim, new)

add_uncertainty_to_claim(text, claim, confidence) ==
    LET uncertainty_prefix == express_uncertainty(confidence, <<>>)
    IN  IF HasPiece(text, claim)
          THEN ReplacePiece(text, claim, uncertainty_prefix \o <<claim>>)
        ELSE text

\* one round of the loop of prevent_hallucination
assess_round(validated_response, claim, confidence) ==
    IF FLess(confidence, F05)
      THEN add_uncertainty_to_claim(validated_response, claim, confidence)
    ELSE validated_response

(***************************************************************************)
(* PoliticalChatbotAgent (agent.py)                                        *)
(***************************************************************************)
ReasoningStep(step_type, content, confidence) ==
    [step_type |-> step_type, content |-> content, confidence |-> confidence]

\* the values of ConversationState
ConversationState ==
    {"initial", "political_discussion", "boundary_crossed",
     "information_synthesis", "perspective_analysis"}

\* update_conversation_state that leaves the context in its first state
update_conversation_state_ignoring(new_state) == "initial"

\* the context's state after update_conversation_state(new_state)
update_conversation_state(new_state) == new_state

\* create_reasoning_step that starts the chain again from the new step
create_reasoning_step_restarting(reasoning_chain, step_type, content, confidence) ==
    <<ReasoningStep(step_type, content, confidence)>>

\* self.context.reasoning_chain.append(step)
create_reasoning_step(reasoning_chain, step_type, content, confidence) ==
    Append(reasoning_chain, ReasoningStep(step_type, content, confidence))

\* what a call of handle_query leaves behind: it raised (error), or it
\* returned ret from its redirect branch, its repair branch or its end (none)
Outcome(raised, error, branch, ret, chain, flow) ==
    [raised |-> raised, error |-> error, branch |-> branch, ret |-> ret,
     reasoning_chain |-> chain, flow |-> flow]

\* redirect += "\n\nSome topics ...:\n"; for s in suggestions: redirect += f"- {s}\n"
RECURSIVE with_suggestions(_, _)
with_suggestions(redirect, suggestions) ==
    IF suggestions = <<>> THEN redirect
    ELSE with_suggestions(redirect \o <<"- ", Head(suggestions), "\n">>,
                          Tail(suggestions))

\* handle_query from the classification on; ret = <<>> stands for None
\* and for ""
handle_query(query, history, classification, reasoning_chain, flow) ==
    LET c == classification
        chain1 == create_reasoning_step(reasoning_chain, "boundary_classification",
                                        <<c.val.reasoning>>, c.val.confidence)
        redirect == generate_graceful_redirect(query, c.val)
        flow_redirect == update_flow_state(flow, query, "redirect", FALSE)
        suggestions == suggest_next_topics(Text("general"))
        full_redirect ==
            IF Truthy(redirect)
              THEN with_suggestions(
                     redirect \o <<"\n\nSome topics you might find interesting:\n">>,
                     suggestions)
            ELSE redirect
    IN  IF "reasoning" \notin c.keys \/ "confidence" \notin c.keys
          THEN Outcome(TRUE, "KeyError", "", <<>>, reasoning_chain, flow)
        ELSE IF "in_scope" \notin c.keys
          THEN Outcome(TRUE, "KeyError", "", <<>>, chain1, flow)
        ELSE IF ~c.val.in_scope
          THEN IF "scope_type" \notin c.keys
                 THEN Outcome(TRUE, "KeyError", "", <<>>, chain1, flow)
               ELSE Outcome(FALSE, "", "redirect", full_redirect, chain1, flow_redirect)
        ELSE IF detect_conversation_breakdown(history, query)
          THEN Outcome(FALSE, "", "repair", repair_conversation(history, "confusion"),
                       chain1, update_flow_state(flow, query, "repair", TRUE))
        ELSE Outcome(FALSE, "", "none", <<>>, chain1, flow)

\* calibrate that takes the response for a primary source
calibrate_primary(validated, reasoning_chain) ==
    LET confidence == calculate_confidence("primary", 7, "divided")
    IN  [final_response |-> express_uncertainty(confidence, validated),
         reasoning_chain |->
             create_reasoning_step(reasoning_chain, "hallucination_prevention",
                 <<"Applied uncertainty calibration (confidence: ",
                   Fmt2(confidence), ")">>,
                 confidence)]

\* validate_and_ground_response after prevent_hallucination: the confidence
\* calibration, the uncertainty wrapping and the reasoning step
calibrate(validated, reasoning_chain) ==
    LET confidence == calculate_confidence("secondary", 7, "divided")
    IN  [final_response |-> express_uncertainty(confidence, validated),
         reasoning_chain |->
             create_reasoning_step(reasoning_chain, "hallucination_prevention",
                 <<"Applied uncertainty calibration (confidence: ",
                   Fmt2(confidence), ")">>,
                 confidence)]

\* initial_response that goes on with the message when the call raises
initial_response_swallowing(reply) ==
    IF reply.kind = "error"
      THEN [exc |-> FALSE, error |-> "", text |-> <<>>]
    ELSE IF reply.kind = "none"
      THEN [exc |-> TRUE, error |-> "Model returned no content", text |-> <<>>]
    ELSE [exc |-> FALSE, error |-> "", text |-> reply.obj.text]

\* initial_response without the test for None
initial_response_unchecked(reply) ==
    IF reply.kind = "error"
      THEN [exc |-> TRUE, error |-> "Initial prompt connection failed.", text |-> <<>>]
    ELSE [exc |-> FALSE, error |-> "", text |-> reply.obj.text]

\* the draft generation of process_message_async, given the reply of its call:
\*   except: raise ValueError('Initial prompt connection failed.')
\*   if initial_response is None: raise ValueError("Model returned no content")
initial_response(reply) ==
    IF reply.kind = "error"
      THEN [exc |-> TRUE, error |-> "Initial prompt connection failed.", text |-> <<>>]
    ELSE IF reply.kind = "none"
      THEN [exc |-> TRUE, error |-> "Model returned no content", text |-> <<>>]
    ELSE [exc |-> FALSE, error |-> "", text |-> reply.obj.text]

\* after_draft without bias mitigation and perspective balancing
after_draft_unmitigated(has_key) == "search"

\* the stage after the draft: bias mitigation needs the bias detector,
\* which exists when the agent has an API key
after_draft(has_key) == IF has_key THEN "bias" ELSE "search"

(***************************************************************************)
(* Inputs: the messages, the histories and the replies of the services.    *)
(***************************************************************************)
\* longest history passed to process_message
MaxHistory == 3

\* most claims in one reply of the claim extraction
MaxClaims == 2

\* messages processed by one agent
MaxMessages == 1

Queries == {QWeather, QConfused}

SeqsUpTo(S, n) == UNION {[1..k -> S] : k \in 0..n}

\* process_message(message, history): history is None or a list
HistoryInputs ==
    {[none |-> TRUE, items |-> <<>>]}
      \cup {[none |-> FALSE, items |-> h] : h \in SeqsUpTo(Queries, MaxHistory)}

S1 == "The debt ceiling was suspended in June 2023"

S2 == "Talks were tense"

DraftText == <<S1, S2>>

NeutralText == <<S1, "Negotiations were difficult">>

BalancedText == <<S1, S2, "Both parties stated their positions at length">>

JsonReply(keys, obj) == [kind |-> "json", keys |-> keys, obj |-> obj]

ClassificationReplies ==
    Failures
      \cup {JsonReply(ClassificationKeys,
                      Classification(TRUE, F09, "semantic reasoning explanation",
                                     "political_event"))}
      \cup {JsonReply(ClassificationKeys,
                      Classification(FALSE, F09, "semantic reasoning explanation", st)) :
              st \in ScopeTypes}
      \cup {JsonReply(ClassificationKeys \ {k},
                      Classification(FALSE, F09, "semantic reasoning explanation",
                                     "out_of_scope")) :
              k \in ClassificationKeys}

DraftReplies ==
    {Reply("error"), Reply("none"),
     [kind |-> "text", keys |-> {}, obj |-> [NoObj EXCEPT !.text = DraftText]]}

BiasKeys == {"neutralized_response", "detected_biases"}

BiasObj == [NoObj EXCEPT !.text = NeutralText, !.list = <<"loaded language">>]

BiasReplies ==
    Failures \cup {JsonReply(BiasKeys, BiasObj)}
             \cup {JsonReply(BiasKeys \ {k}, BiasObj) : k \in BiasKeys}

BalanceReplies ==
    Failures \cup {JsonReply({"analysis", "balanced_response"},
                             [NoObj EXCEPT !.text = BalancedText]),
                   JsonReply({"analysis"}, NoObj)}

SearchReplies ==
    {Reply("error"), Reply("status"),
     JsonReply({"results", "answer"},
               [NoObj EXCEPT !.list = <<"a search result">>, !.text = <<"an answer">>])}

GapsReplies ==
    Failures \cup {JsonReply({"known_facts"}, [NoObj EXCEPT !.list = <<S1>>])}

ClaimPool == {S1, "A claim that is not in the text"}

ExtractReplies ==
    Failures \cup {JsonReply({"claims"}, [NoObj EXCEPT !.list = cl]) :
                     cl \in SeqsUpTo(ClaimPool, MaxClaims)}
             \cup {JsonReply({}, NoObj)}

AssessReplies ==
    Failures \cup {[kind |-> "number", keys |-> {},
                    obj |-> [NoObj EXCEPT !.number = n]] : n \in {F03, F09}}

(***************************************************************************)
(* State.                                                                  *)
(***************************************************************************)
VARIABLES
    api_key,            \* the agent was given an OpenAI API key
    tavily_key,         \* the agent was given a Tavily key
    ci_api_key,         \* ConversationalIntelligence.api_key is set
    state,              \* context.state
    message_history,    \* context.message_history
    reasoning_chain,    \* context.reasoning_chain
    detected_biases,    \* context.detected_biases
    flow,               \* flow_manager: state_history, engagement_score
    pc,                 \* where process_message is
    awaiting,           \* the call of the stage at pc has been issued
    message,            \* process_message: message
    history,            \* process_message: history
    session,            \* main.py respond: the UI session served (0: none)
    classification,     \* handle_query: classification
    response,           \* the response text as the stages hand it on
    search_results,     \* validate_and_ground_response: search_results
    gaps,               \* validate_and_ground_response: gaps
    claims,             \* prevent_hallucination: the claims not yet assessed
    result,             \* what process_message returned or raised
    inflight,           \* the external calls issued and not yet returned
    calls,              \* the external calls of this message, in issue order
    lastReply,          \* the stage and the kind of the latest reply
    processed,          \* messages given to process_message so far
    calc                \* an evaluation of calculate_confidence

config == <<api_key, tavily_key, ci_api_key>>

context == <<state, message_history, reasoning_chain, detected_biases>>

locals == <<message, history, session, classification, response, search_results, gaps, claims,
            result>>

vars == <<api_key, tavily_key, ci_api_key, state, message_history, reasoning_chain,
          detected_biases, flow, pc, awaiting, message, history, session,
          classification, response, search_results, gaps, claims, result, inflight, calls, lastReply,
          processed, calc>>

NoResult == [kind |-> "pending", via |-> "", value |-> <<>>, error |-> ""]

Returned(via, value) == [kind |-> "returned", via |-> via, value |-> value, error |-> ""]

RaisedError(error) == [kind |-> "raised", via |-> "", value |-> <<>>, error |-> error]

NoReply == [stage |-> "", kind |-> ""]

NoClassification == Gave({}, NoObj)

\* process_message called outside the user interface
NoSession == 0

NoGaps == [known_facts |-> <<>>, unknown_aspects |-> <<>>, unknowable_aspects |-> <<>>]

NoSearch ==
    [success |-> FALSE, fallback |-> FALSE, message |-> "", results |-> <<>>,
     answer |-> <<>>]

NoCalc ==
    [source_quality |-> "secondary", temporal_relevance |-> 7,
     consensus_level |-> "divided", done |-> FALSE, confidence |-> F0]

\* PoliticalChatbotAgent.__init__, ConversationContext(), ConversationFlowManager()
FreshAgent ==
    /\ state = "initial"
    /\ message_history = <<>>
    /\ reasoning_chain = <<>>
    /\ detected_biases = <<>>
    /\ flow = [state_history |-> <<>>, engagement_score |-> F1]
    /\ pc = "idle"
    /\ awaiting = FALSE
    /\ message = ""
    /\ history = <<>>
    /\ session = NoSession
    /\ classification = NoClassification
    /\ response = <<>>
    /\ search_results = NoSearch
    /\ gaps = NoGaps
    /\ claims = <<>>
    /\ result = NoResult
    /\ inflight = {}
    /\ calls = <<>>
    /\ lastReply = NoReply
    /\ processed = 0

\* The agent and its classifier, with and without their keys.  The classifier
\* ConversationalIntelligence takes an optional api_key, so classify_request
\* is modelled with and without it.
Init ==
    /\ api_key \in BOOLEAN
    /\ tavily_key \in BOOLEAN
    /\ ci_api_key \in BOOLEAN
    /\ FreshAgent
    /\ calc = NoCalc

(***************************************************************************)
(* The pipeline of process_message, one action per step between external   *)
(* calls.  A stage that makes an external call has an Issue action (the    *)
(* request leaves) and a Return action (the reply, any of the stage's      *)
(* replies, is handled up to the next call); a stage whose call needs a    *)
(* key that is missing has a Skip action.                                  *)
(***************************************************************************)
Issue(stage) ==
    /\ pc = stage
    /\ ~awaiting
    /\ awaiting' = TRUE
    /\ inflight' = inflight \cup {stage}
    /\ calls' = Append(calls, stage)
    /\ UNCHANGED <<config, context, flow, pc, locals, lastReply, processed, calc>>

Receive(stage, reply) ==
    /\ pc = stage
    /\ awaiting
    /\ awaiting' = FALSE
    /\ inflight' = inflight \ {stage}
    /\ lastReply' = [stage |-> stage, kind |-> reply.kind]
    /\ UNCHANGED <<config, calls, processed, calc>>

Skip(stage) ==
    /\ pc = stage
    /\ ~awaiting
    /\ UNCHANGED <<config, awaiting, inflight, calls, lastReply, processed, calc>>

\* process_message: a None history becomes []; then process_message_async
\* and handle_query up to the classification
Begin(s, m, h) ==
    /\ pc = "idle"
    /\ processed < MaxMessages
    /\ processed' = processed + 1
    /\ session' = s
    /\ message' = m
    /\ history' = IF h.none THEN <<>> ELSE h.items
    /\ pc' = "classify"
    /\ UNCHANGED <<config, context, flow, awaiting, classification, response,
                   search_results, gaps, claims, result, inflight, calls, lastReply,
                   calc>>

StartMessage(m, h) == Begin(NoSession, m, h)

\* handle_query from the classification on, and process_message_async up to
\* the draft-generation call.  history is read by handle_query alone.
Boundary(c) ==
    LET hq == handle_query(message, history, c, reasoning_chain, flow)
    IN  /\ classification' = c
        /\ flow' = hq.flow
        /\ history' = <<>>
        /\ IF hq.raised
             THEN /\ reasoning_chain' = hq.reasoning_chain
                  /\ result' = RaisedError(hq.error)
                  /\ pc' = "raised"
                  /\ UNCHANGED state
           ELSE IF Truthy(hq.ret)
             THEN /\ reasoning_chain' = hq.reasoning_chain
                  /\ result' = Returned(hq.branch, hq.ret)
                  /\ pc' = "returned"
                  /\ UNCHANGED state
           ELSE /\ reasoning_chain' =
                       create_reasoning_step(hq.reasoning_chain, "query_analysis",
                                             <<"Analyzing query: ", message>>, F07)
                /\ state' = update_conversation_state("political_discussion")
                /\ pc' = "draft"
                /\ UNCHANGED result
        /\ UNCHANGED <<message_history, detected_biases, message, session, response,
                       search_results, gaps, claims>>

ClassifySkip ==
    /\ ~ci_api_key
    /\ Skip("classify")
    /\ Boundary(classify_request_nokey)

ClassifyIssue == ci_api_key /\ Issue("classify")

ClassifyEffect(reply) == Boundary(classify_request(reply))

ClassifyReturn(reply) == Receive("classify", reply) /\ ClassifyEffect(reply)

DraftIssue == Issue("draft")

DraftReturn(reply) ==
    /\ Receive("draft", reply)
    /\ IF initial_response(reply).exc
         THEN /\ result' = RaisedError(initial_response(reply).error)
              /\ pc' = "raised"
              /\ UNCHANGED response
       ELSE /\ response' = initial_response(reply).text
            /\ pc' = after_draft(api_key)
            /\ UNCHANGED result
    /\ UNCHANGED <<context, flow, message, history, session, classification, search_results, gaps, claims>>

BiasIssue == Issue("bias")

\* apply_bias_mitigation that records its step only for an analysis it got
BiasEffect_quiet(reply) ==
    LET mitigated == detect_mitigate_bias(response, reply)
    IN  /\ detected_biases' = detected_biases \o mitigated[2]
        /\ reasoning_chain' =
               IF reply.kind = "json"
                 THEN create_reasoning_step(reasoning_chain, "bias_mitigation",
                          <<"Detected and corrected ", ToString(Len(mitigated[2])),
                            " potential biases">>, F08)
               ELSE reasoning_chain
        /\ response' = mitigated[1]
        /\ pc' = "balance"
        /\ UNCHANGED <<state, message_history, flow, message, history, session, classification,
                       search_results, gaps, claims, result>>

\* apply_bias_mitigation
BiasEffect(reply) ==
    LET mitigated == detect_mitigate_bias(response, reply)
    IN  /\ detected_biases' = detected_biases \o mitigated[2]
        /\ reasoning_chain' =
               create_reasoning_step(reasoning_chain, "bias_mitigation",
                   <<"Detected and corrected ", ToString(Len(mitigated[2])),
                     " potential biases">>, F08)
        /\ response' = mitigated[1]
        /\ pc' = "balance"
        /\ UNCHANGED <<state, message_history, flow, message, history, session, classification,
                       search_results, gaps, claims, result>>

BiasReturn(reply) == Receive("bias", reply) /\ BiasEffect(reply)

BalanceIssue == Issue("balance")

BalanceEffect(reply) ==
    /\ response' = ensure_perspective_balance(message, response, reply)
    /\ pc' = "search"
    /\ UNCHANGED <<context, flow, message, history, session, classification, search_results, gaps, claims,
                   result>>

BalanceReturn(reply) == Receive("balance", reply) /\ BalanceEffect(reply)

SearchSkip ==
    /\ ~tavily_key
    /\ Skip("search")
    /\ search_results' = SearchUnavailable
    /\ pc' = "gaps"
    /\ UNCHANGED <<context, flow, message, history, session, classification, response, gaps, claims, result>>

SearchIssue == tavily_key /\ Issue("search")

SearchReturn(reply) ==
    /\ Receive("search", reply)
    /\ search_results' = search_information(reply)
    /\ pc' = "gaps"
    /\ UNCHANGED <<context, flow, message, history, session, classification, response, gaps, claims, result>>

\* search_results is read by reason_about_information_gaps alone: the
\* variable holds it until then
GapsSkip ==
    /\ ~api_key
    /\ Skip("gaps")
    /\ gaps' = GapsNoKey
    /\ search_results' = NoSearch
    /\ pc' = "extract"
    /\ UNCHANGED <<context, flow, message, history, session, classification, response, claims, result>>

GapsIssue == api_key /\ Issue("gaps")

GapsEffect(reply) ==
    /\ gaps' = reason_about_information_gaps(message, search_results, reply)
    /\ search_results' = NoSearch
    /\ pc' = "extract"
    /\ UNCHANGED <<context, flow, message, history, session, classification, response, claims, result>>

GapsReturn(reply) == Receive("gaps", reply) /\ GapsEffect(reply)

\* the end of validate_and_ground_response and of process_message_async
Finalize(validated) ==
    /\ reasoning_chain' = calibrate(validated, reasoning_chain).reasoning_chain
    /\ result' = Returned("pipeline", calibrate(validated, reasoning_chain).final_response)
    /\ pc' = "returned"

\* prevent_hallucination once the claims are known.  gaps is assigned and
\* never read: the variable holds it until prevent_hallucination runs
Extracted(cl) ==
    /\ claims' = cl
    /\ gaps' = NoGaps
    /\ UNCHANGED response
    /\ IF cl = <<>> THEN Finalize(response)
       ELSE pc' = "assess" /\ UNCHANGED <<reasoning_chain, result>>
    /\ UNCHANGED <<state, message_history, detected_biases, flow, message, history, session, classification,
                   search_results>>

ExtractSkip ==
    /\ ~api_key
    /\ Skip("extract")
    /\ Extracted(split_sentences(response))

ExtractIssue == api_key /\ Issue("extract")

ExtractEffect(reply) == Extracted(extract_claims(response, reply))

ExtractReturn(reply) == Receive("extract", reply) /\ ExtractEffect(reply)

\* Assessed that keeps a claim whose assessment fell back to 0.5, to assess
\* it again
Assessed_retrying(confidence) ==
    IF confidence = F05
      THEN UNCHANGED <<context, flow, pc, message, history, session, classification,
                       response, search_results, gaps, claims, result>>
    ELSE LET validated == assess_round(response, Head(claims), confidence)
         IN  /\ response' = validated
             /\ claims' = Tail(claims)
             /\ IF Tail(claims) = <<>> THEN Finalize(validated)
                ELSE UNCHANGED <<pc, reasoning_chain, result>>
             /\ UNCHANGED <<state, message_history, detected_biases, flow, message,
                            history, session, classification, search_results, gaps>>

\* the loop body of prevent_hallucination for the next claim
Assessed(confidence) ==
    LET validated == assess_round(response, Head(claims), confidence)
    IN  /\ response' = validated
        /\ claims' = Tail(claims)
        /\ IF Tail(claims) = <<>> THEN Finalize(validated)
           ELSE UNCHANGED <<pc, reasoning_chain, result>>
        /\ UNCHANGED <<state, message_history, detected_biases, flow, message,
                       history, session, classification, search_results, gaps>>

AssessSkip ==
    /\ ~api_key
    /\ Skip("assess")
    /\ Assessed(F05)

AssessIssue == api_key /\ Issue("assess")

AssessReturn(reply) ==
    /\ Receive("assess", reply)
    /\ Assessed(assess_claim_confidence(reply))

\* process_message has returned or raised: its caller has the result and
\* the locals of the call are gone
Finish ==
    /\ pc \in {"returned", "raised"}
    /\ pc' = "idle"
    /\ message' = ""
    /\ history' = <<>>
    /\ session' = NoSession
    /\ classification' = NoClassification
    /\ response' = <<>>
    /\ search_results' = NoSearch
    /\ gaps' = NoGaps
    /\ claims' = <<>>
    /\ result' = NoResult
    /\ calls' = <<>>
    /\ lastReply' = NoReply
    /\ UNCHANGED <<config, context, flow, awaiting, inflight, processed, calc>>

\* the steps of a message once it has started
Pipeline ==
    \/ ClassifySkip
    \/ ClassifyIssue
    \/ \E reply \in ClassificationReplies : ClassifyReturn(reply)
    \/ DraftIssue
    \/ \E reply \in DraftReplies : DraftReturn(reply)
    \/ BiasIssue
    \/ \E reply \in BiasReplies : BiasReturn(reply)
    \/ BalanceIssue
    \/ \E reply \in BalanceReplies : BalanceReturn(reply)
    \/ SearchSkip
    \/ SearchIssue
    \/ \E reply \in SearchReplies : SearchReturn(reply)
    \/ GapsSkip
    \/ GapsIssue
    \/ \E reply \in GapsReplies : GapsReturn(reply)
    \/ ExtractSkip
    \/ ExtractIssue
    \/ \E reply \in ExtractReplies : ExtractReturn(reply)
    \/ AssessSkip
    \/ AssessIssue
    \/ \E reply \in AssessReplies : AssessReturn(reply)
    \/ Finish

Next ==
    \/ \E m \in Queries, h \in HistoryInputs : StartMessage(m, h)
    \/ Pipeline

Spec == Init /\ [][Next]_vars

(***************************************************************************)
(* The user interface (main.py): create_gradio_interface builds one agent, *)
(* and respond, the handler of every UI session, passes its message to     *)
(* that agent.                                                             *)
(***************************************************************************)
\* UI sessions open at once
MaxSessions == 2

Sessions == 1..MaxSessions

\* the context the handler of session s works on: chatbot.context, the
\* context of the one agent
ContextOf(s) == context

\* respond(message, chat_history) of session s, up to process_message
Respond(s, m, h) == Begin(s, m, h)

SessionsNext ==
    \/ \E s \in Sessions, m \in Queries, h \in HistoryInputs : Respond(s, m, h)
    \/ Pipeline

SpecSessions == Init /\ [][SessionsNext]_vars

(***************************************************************************)
(* calculate_confidence on its own: every input, then the evaluation.      *)
(***************************************************************************)
CalcInit ==
    /\ api_key = FALSE
    /\ tavily_key = FALSE
    /\ ci_api_key = FALSE
    /\ FreshAgent
    /\ calc \in [source_quality : SourceQualities, temporal_relevance : Ages,
                 consensus_level : ConsensusLevels, done : {FALSE},
                 confidence : {F0}]

CalculateConfidence ==
    /\ ~calc.done
    /\ calc' = [calc EXCEPT !.done = TRUE,
                  !.confidence = calculate_confidence(calc.source_quality,
                                    calc.temporal_relevance, calc.consensus_level)]
    /\ UNCHANGED <<config, context, flow, pc, awaiting, locals, inflight, calls,
                   lastReply, processed>>

CalcNext == CalculateConfidence

SpecCalc == CalcInit /\ [][CalcNext]_vars

(***************************************************************************)
(* express_uncertainty on its own: every input, then the evaluation.       *)
(***************************************************************************)
\* the confidences are the multiples of 2^-GridBits in [0, 1], the decimal
\* literals of the program and the values calculate_confidence returns
GridBits == 6

ConfidenceGrid == {<<k * 2^(28 - GridBits), 0>> : k \in 0..(2^GridBits)}

ConfidenceInputs ==
    ConfidenceGrid
      \cup {F0, F01, F02, F03, F04, F05, F06, F07, F08, F09, F1}
      \cup {calculate_confidence(q, a, c) :
              q \in SourceQualities, a \in {0, 7, 30, 180}, c \in ConsensusLevels}

Statements == {<<"X">>, DraftText}

BandInit ==
    /\ api_key = FALSE
    /\ tavily_key = FALSE
    /\ ci_api_key = FALSE
    /\ FreshAgent
    /\ calc \in [confidence : ConfidenceInputs, statement : Statements,
                 done : {FALSE}, text : {<<>>}]

ExpressUncertainty ==
    /\ ~calc.done
    /\ calc' = [calc EXCEPT !.done = TRUE,
                  !.text = express_uncertainty(calc.confidence, calc.statement)]
    /\ UNCHANGED <<config, context, flow, pc, awaiting, locals, inflight, calls,
                   lastReply, processed>>

BandNext == ExpressUncertainty

SpecBand == BandInit /\ [][BandNext]_vars

(***************************************************************************)
(* The ConversationFlowManager on its own: update_flow_state called any    *)
(* number of times on a fresh manager.                                     *)
(***************************************************************************)
\* calls of update_flow_state on one manager
MaxUpdates == 10

\* the arguments handle_query passes: a redirect is a failure, a repair a
\* success
FlowInputs ==
    {[query |-> QWeather, response_type |-> "redirect", success |-> FALSE],
     [query |-> QConfused, response_type |-> "repair", success |-> TRUE]}

FlowInit ==
    /\ api_key = FALSE
    /\ tavily_key = FALSE
    /\ ci_api_key = FALSE
    /\ FreshAgent
    /\ calc = NoCalc

UpdateFlowState(query, response_type, success) ==
    /\ Len(flow.state_history) < MaxUpdates
    /\ flow' = update_flow_state(flow, query, response_type, success)
    /\ UNCHANGED <<config, context, pc, awaiting, locals, inflight, calls, lastReply,
                   processed, calc>>

FlowNext ==
    \E in \in FlowInputs : UpdateFlowState(in.query, in.response_type, in.success)

SpecFlow == FlowInit /\ [][FlowNext]_vars

(***************************************************************************)
(* The message history of a ConversationContext on its own:                *)
(* deque(maxlen=10), appended to by a holder of the context.  (No          *)
(* statement of the agent appends to it.)                                  *)
(***************************************************************************)
\* deque(maxlen=10)
Capacity == 10

\* appends to one history
MaxAppends == 13

\* deque.append with a maxlen without the eviction
deque_append_unbounded(d, x) == Append(d, x)

\* deque.append with a maxlen: a full deque drops its leftmost item
deque_append(d, x) ==
    IF Len(d) < Capacity THEN Append(d, x) ELSE Append(Tail(d), x)

HistoryInit ==
    /\ api_key = FALSE
    /\ tavily_key = FALSE
    /\ ci_api_key = FALSE
    /\ FreshAgent
    /\ calc = NoCalc

\* context.message_history.append((m, n)), n the number of the append
AppendExchange(m) ==
    /\ processed < MaxAppends
    /\ processed' = processed + 1
    /\ message_history' = deque_append(message_history, <<m, processed + 1>>)
    /\ UNCHANGED <<config, state, reasoning_chain, detected_biases, flow, pc,
                   awaiting, locals, inflight, calls, lastReply, calc>>

HistoryNext == \E m \in Queries : AppendExchange(m)

SpecHistory == HistoryInit /\ [][HistoryNext]_vars

(***************************************************************************)
(* detect_conversation_breakdown on its own: a history of up to MaxHistory *)
(* user messages and a current query.                                      *)
(***************************************************************************)
BreakdownQueries == {QWeather, QConfused, QNotAsked}

BreakdownInit ==
    /\ api_key = FALSE
    /\ tavily_key = FALSE
    /\ ci_api_key = FALSE
    /\ FreshAgent
    /\ \E h \in SeqsUpTo(BreakdownQueries, MaxHistory), q \in BreakdownQueries :
           calc = [history |-> h, current_query |-> q, done |-> FALSE,
                   result |-> FALSE]

DetectConversationBreakdown ==
    /\ ~calc.done
    /\ calc' = [calc EXCEPT
                   !.done = TRUE,
                   !.result = detect_conversation_breakdown(calc.history,
                                                            calc.current_query)]
    /\ UNCHANGED <<config, context, flow, pc, awaiting, locals, inflight, calls,
                   lastReply, processed>>

BreakdownNext == DetectConversationBreakdown

SpecBreakdown == BreakdownInit /\ [][BreakdownNext]_vars

(***************************************************************************)
(* The agent as PoliticalChatbotAgent.__init__ builds it: the classifier   *)
(* is ConversationalIntelligence() whatever api_key is, and nothing in the *)
(* repository assigns its api_key afterwards.  The steps are those of the  *)
(* pipeline that such an agent can take.                                   *)
(***************************************************************************)
\* an agent that hands its key to the classifier
agent_classifier_key_passed(key) == key

\* the api_key of self.conversational_intelligence
agent_classifier_key(key) == FALSE

AgentInit ==
    /\ api_key \in BOOLEAN
    /\ tavily_key \in BOOLEAN
    /\ ci_api_key = agent_classifier_key(api_key)
    /\ FreshAgent
    /\ calc = NoCalc

AgentNext ==
    \/ \E m \in Queries, h \in HistoryInputs : StartMessage(m, h)
    \/ ClassifySkip
    \/ DraftIssue
    \/ \E reply \in DraftReplies : DraftReturn(reply)
    \/ BiasIssue
    \/ \E reply \in BiasReplies : BiasReturn(reply)
    \/ BalanceIssue
    \/ \E reply \in BalanceReplies : BalanceReturn(reply)
    \/ SearchSkip
    \/ SearchIssue
    \/ \E reply \in SearchReplies : SearchReturn(reply)
    \/ GapsSkip
    \/ GapsIssue
    \/ \E reply \in GapsReplies : GapsReturn(reply)
    \/ ExtractSkip
    \/ ExtractIssue
    \/ \E reply \in ExtractReplies : ExtractReturn(reply)
    \/ AssessSkip
    \/ AssessIssue
    \/ \E reply \in AssessReplies : AssessReturn(reply)
    \/ Finish

SpecAgent == AgentInit /\ [][AgentNext]_vars

(***************************************************************************)
(* suggest_next_topics on its own: a flow manager is asked for suggestions *)
(* on a topic made of up to MaxWords words written one after the other.    *)
(***************************************************************************)
MaxWords == 3

TopicWords ==
    {"election", "Policy", "SUPREME_COURT", "supreme court", "general", "elect",
     "ion"}

RECURSIVE Spell(_)
Spell(words) ==
    IF words = <<>> THEN <<>> ELSE Text(Head(words)) \o Spell(Tail(words))

TopicsInit ==
    /\ api_key = FALSE
    /\ tavily_key = FALSE
    /\ ci_api_key = FALSE
    /\ FreshAgent
    /\ \E words \in SeqsUpTo(TopicWords, MaxWords) :
           calc = [topic |-> words, done |-> FALSE, suggestions |-> <<>>]

SuggestNextTopics ==
    /\ ~calc.done
    /\ calc' = [calc EXCEPT !.done = TRUE,
                            !.suggestions = suggest_next_topics(Spell(calc.topic))]
    /\ UNCHANGED <<config, context, flow, pc, awaiting, locals, inflight, calls,
                   lastReply, processed>>

TopicsNext == SuggestNextTopics

SpecTopics == TopicsInit /\ [][TopicsNext]_vars

(***************************************************************************)
(* Properties of the message pipeline (under Spec).                        *)
(***************************************************************************)
\* handle_query has run for the current message
Classified == pc \notin {"idle", "classify"}

\* the kinds of reply that are a failure of a call
FailKinds == {"error", "none", "garbled"}

\* the order of the external calls of one message
PipelineOrder == <<"classify", "draft", "bias", "balance", "search", "gaps">>

IsPrefix(s, t) == Len(s) <= Len(t) /\ \A i \in 1..Len(s) : s[i] = t[i]

InOrder(stage) == \E i \in 1..Len(PipelineOrder) : PipelineOrder[i] = stage

\* the calls the agent's configuration lets a message make, in order
ExpectedCalls ==
    LET Enabled(stage) ==
            /\ stage = "classify" => ci_api_key
            /\ stage = "search" => tavily_key
    IN  SelectSeq(PipelineOrder, Enabled)

\* C1: whenever the classification has in_scope = False, whatever its
\* scope_type, process_message returns a redirect text that contains the
\* query, and the message never reaches draft generation or a later stage.
C1_OutOfScopeIsRedirected ==
    (/\ Classified
     /\ classification.keys = ClassificationKeys
     /\ ~classification.val.in_scope)
        => /\ pc = "returned"
           /\ result.via = "redirect"
           /\ HasPiece(result.value, message)
           /\ ~HasPiece(calls, "draft")

\* C2: with an API key, at most one external call is in flight, it is the
\* call issued last, and the calls of a message are issued in the order
\* classification, draft, bias mitigation, perspective balancing, search,
\* gap analysis, none of them out of turn.
C2_SequentialFixedOrder ==
    /\ Cardinality(inflight) <= 1
    /\ \A stage \in inflight : calls # <<>> /\ calls[Len(calls)] = stage
    /\ api_key => IsPrefix(SelectSeq(calls, InOrder), ExpectedCalls)

\* a message of an agent with every key went through the six calls
C2_Witness ==
    /\ api_key /\ tavily_key /\ ci_api_key
    /\ pc = "returned"
    /\ result.via = "pipeline"
    /\ classification.val.in_scope
    /\ SelectSeq(calls, InOrder) = PipelineOrder

\* C3: when a message has gone through the whole pipeline, the exchange is
\* in the message history of the context.
C3_ExchangeIsAppended ==
    (pc = "returned" /\ result.via = "pipeline")
        => \E i \in 1..Len(message_history) : message_history[i][1] = message

C5_EmptyDraftRaises ==
    lastReply = [stage |-> "draft", kind |-> "none"]
        => /\ pc = "raised"
           /\ result.kind = "raised"
           /\ result.error = "Model returned no content"
           /\ \A i \in 1..Len(calls) : calls[i] \in {"classify", "draft"}
           /\ response = <<>>
           /\ claims = <<>>

C5_Witness ==
    /\ lastReply = [stage |-> "draft", kind |-> "none"]
    /\ pc = "raised"
    /\ api_key

\* C6: when the classification call fails, or the classifier has no API key,
\* classify_request gives a default classification with in_scope = true and
\* confidence = 0.5, and the message is not redirected.
C6_FailedClassificationIsInScope ==
    /\ (lastReply.stage = "classify" /\ lastReply.kind \in FailKinds)
           => /\ classification = FailedClassification
              /\ classification.val.in_scope
              /\ classification.val.confidence = F05
              /\ pc = "draft" \/ (pc = "returned" /\ result.via = "repair")
    /\ (Classified /\ ~ci_api_key)
           => /\ classification = NoLLMClassification
              /\ classification.val.in_scope
              /\ classification.val.confidence = F05
              /\ result.via # "redirect"

C6_Witness ==
    /\ lastReply = [stage |-> "classify", kind |-> "error"]
    /\ pc = "draft"
    /\ classification.val.in_scope

\* C7: when the bias-mitigation call fails, apply_bias_mitigation returns
\* the text it was given with an empty list of biases, and detected_biases
\* is as it was.
C7_FailedBiasCallChangesNothing ==
    [][(pc = "bias" /\ awaiting /\ lastReply'.kind \in {"error", "none"})
          => /\ response' = response
             /\ detected_biases' = detected_biases
             /\ reasoning_chain'[Len(reasoning_chain')].content
                    = <<"Detected and corrected ", "0", " potential biases">>]_vars

C7_Witness ==
    /\ lastReply = [stage |-> "bias", kind |-> "error"]
    /\ pc = "balance"
    /\ response = DraftText
    /\ detected_biases = <<>>

\* C8: in each stage that decodes JSON (classification, bias mitigation,
\* perspective balancing, gap analysis, claim extraction) a reply that is
\* not decodable leaves the result and the state that a raised error of the
\* same call leaves.
C8_UndecodableAsFailure ==
    [][/\ (pc = "classify" /\ awaiting /\ lastReply'.kind = "garbled")
              => ClassifyEffect(Reply("error"))
       /\ (pc = "bias" /\ awaiting /\ lastReply'.kind = "garbled")
              => BiasEffect(Reply("error"))
       /\ (pc = "balance" /\ awaiting /\ lastReply'.kind = "garbled")
              => BalanceEffect(Reply("error"))
       /\ (pc = "gaps" /\ awaiting /\ lastReply'.kind = "garbled")
              => GapsEffect(Reply("error"))
       /\ (pc = "extract" /\ awaiting /\ lastReply'.kind = "garbled")
              => ExtractEffect(Reply("error"))]_vars

C8_Witness ==
    /\ lastReply = [stage |-> "gaps", kind |-> "garbled"]
    /\ gaps = GapsFailed
    /\ pc = "extract"

(***************************************************************************)
(* Properties of calculate_confidence (under SpecCalc).                    *)
(***************************************************************************)
\* C9: for every source quality, age and consensus level the value
\* calculate_confidence returns is in [0.0, 1.0].
C9_ConfidenceInUnitInterval ==
    calc.done => FLeq(F0, calc.confidence) /\ FLeq(calc.confidence, F1)

\* the sum 0.9 + 0.0 + 0.2 is above 1.0 and comes back as 1.0
C9_Witness ==
    /\ calc.done
    /\ calc.source_quality = "primary"
    /\ calc.temporal_relevance = 0
    /\ calc.consensus_level = "universal"
    /\ calc.confidence = F1

\* C10: with the source quality and the consensus level fixed,
\* calculate_confidence does not increase with the age: every greater age
\* gives a value that is at most the value returned.
C10_MonotoneInAge ==
    calc.done =>
        \A older \in Ages :
            older >= calc.temporal_relevance
                => FLeq(calculate_confidence(calc.source_quality, older,
                                             calc.consensus_level),
                        calc.confidence)

\* an age at the edge of a bucket: one day more gives a smaller value
C10_Witness ==
    /\ calc.done
    /\ calc.temporal_relevance = 29
    /\ FLess(calculate_confidence(calc.source_quality, 30, calc.consensus_level),
             calc.confidence)

\* the tables of the calibration protocol: base score, age penalty and
\* consensus delta, in tenths
BaseTenths(source_quality) ==
    CASE source_quality = "primary" -> 9
      [] source_quality = "secondary" -> 7
      [] source_quality = "analysis" -> 5
      [] source_quality = "speculation" -> 3
      [] source_quality = "unknown" -> 2

PenaltyTenths(age) ==
    CASE age < 7 -> 0
      [] 7 <= age /\ age < 30 -> -1
      [] 30 <= age /\ age < 180 -> -2
      [] age >= 180 -> -3

DeltaTenths(consensus_level) ==
    CASE consensus_level = "universal" -> 2
      [] consensus_level = "broad" -> 1
      [] consensus_level = "divided" -> -1
      [] consensus_level = "controversial" -> -2
      [] consensus_level = "unknown" -> 0

\* the double written n/10, for -3 <= n <= 9
Tenths(n) ==
    LET lit == <<F0, F01, F02, F03, F04, F05, F06, F07, F08, F09>>
    IN  IF n >= 0 THEN lit[n + 1] ELSE FNeg(lit[1 - n])

BandPrefixes ==
    <<"Based on verified sources, ",
      "Available evidence suggests that ",
      "While there is some uncertainty, ",
      "With limited confidence, it appears that ",
      "I cannot reliably confirm this, but ">>

\* the band a text was given: the place of its first piece in BandPrefixes
BandOf(text) == CHOOSE i \in 1..Len(BandPrefixes) : BandPrefixes[i] = text[1]

\* C12: a confidence that is exactly 0.8, 0.6, 0.4 or 0.2 is given the
\* band above the threshold: 0.8 the first band, 0.6 the second, 0.4 the
\* third, 0.2 the fourth.
C12_ThresholdTakesHigherBand ==
    calc.done =>
        /\ calc.confidence = F08 => calc.text[1] = BandPrefixes[1]
        /\ calc.confidence = F06 => calc.text[1] = BandPrefixes[2]
        /\ calc.confidence = F04 => calc.text[1] = BandPrefixes[3]
        /\ calc.confidence = F02 => calc.text[1] = BandPrefixes[4]

\* C13: every confidence in [0, 1] is given exactly one of the five bands,
\* the one its side of 0.8, 0.6, 0.4 and 0.2 says; the five prefixes are
\* pairwise distinct; a higher confidence is never given a lower band; and
\* 0.9 and 0.1 are given different prefixes for the same statement.
C13_FiveOrderedBands ==
    calc.done =>
        /\ \A i, j \in 1..Len(BandPrefixes) :
               BandPrefixes[i] = BandPrefixes[j] => i = j
        /\ \E i \in 1..Len(BandPrefixes) : BandPrefixes[i] = calc.text[1]
        /\ FLess(F08, calc.confidence) => BandOf(calc.text) = 1
        /\ (FLess(F06, calc.confidence) /\ FLess(calc.confidence, F08))
               => BandOf(calc.text) = 2
        /\ (FLess(F04, calc.confidence) /\ FLess(calc.confidence, F06))
               => BandOf(calc.text) = 3
        /\ (FLess(F02, calc.confidence) /\ FLess(calc.confidence, F04))
               => BandOf(calc.text) = 4
        /\ FLess(calc.confidence, F02) => BandOf(calc.text) = 5
        /\ \A higher \in ConfidenceInputs :
               FLeq(calc.confidence, higher)
                   => BandOf(express_uncertainty(higher, calc.statement))
                          <= BandOf(calc.text)
        /\ calc.confidence = F09
               => calc.text[1] # express_uncertainty(F01, calc.statement)[1]

\* 0.9 and 0.1 on the same statement: the first and the last band
C13_Witness ==
    /\ calc.done
    /\ calc.confidence = F09
    /\ calc.text[1] = BandPrefixes[1]
    /\ express_uncertainty(F01, calc.statement)[1] = BandPrefixes[5]

(***************************************************************************)
(* Properties of update_flow_state (under SpecFlow).                       *)
(***************************************************************************)
\* the last n calls of update_flow_state were made, and with this success
LastCalls(n, success) ==
    /\ Len(flow.state_history) >= n
    /\ \A i \in 1..Len(flow.state_history) :
           i > Len(flow.state_history) - n => flow.state_history[i].success = success

\* C14: after any number of calls with success = True on a fresh manager,
\* and nothing else, engagement_score is exactly 1.0.
C14_SuccessesKeepFullScore ==
    LastCalls(Len(flow.state_history), TRUE) => flow.engagement_score = F1

C14_Witness ==
    /\ Len(flow.state_history) >= 3
    /\ LastCalls(Len(flow.state_history), TRUE)
    /\ flow.engagement_score = F1

\* C15 as the specification states it: after three calls in a row with
\* success = False, engagement_score is exactly 0.0.
C15_ThreeFailuresReachZero ==
    LastCalls(3, FALSE) => flow.engagement_score = F0

\* C15: three failures in a row on a fresh manager leave 1.0 - 0.2 - 0.2 -
\* 0.2, which is above 0.4; five leave a score above 0.0; six failures in a
\* row leave exactly 0.0, whatever the score before them, and six more
\* failures from any score reached would too.
C15_SixFailuresReachZero ==
    LET fail(x) == engagement_after(x, FALSE)
    IN  /\ LastCalls(6, FALSE) => flow.engagement_score = F0
        /\ fail(fail(fail(fail(fail(fail(flow.engagement_score)))))) = F0
        /\ (Len(flow.state_history) = 3 /\ LastCalls(3, FALSE))
               => /\ flow.engagement_score = FSub(FSub(FSub(F1, F02), F02), F02)
                  /\ FLess(F04, flow.engagement_score)
        /\ (Len(flow.state_history) = 5 /\ LastCalls(5, FALSE))
               => FLess(F0, flow.engagement_score)

\* two successes, then six failures
C15_Witness ==
    /\ Len(flow.state_history) = 8
    /\ flow.state_history[1].success
    /\ flow.state_history[2].success
    /\ LastCalls(6, FALSE)
    /\ flow.engagement_score = F0

\* C16: every call of update_flow_state leaves engagement_score in [0, 1]:
\* min(1.0, old + 0.1) when success is true, max(0.0, old - 0.2) when not.
C16_ScoreStepAndRange ==
    [][flow' # flow =>
          LET old == flow.engagement_score
              new == flow'.engagement_score
              last == flow'.state_history[Len(flow'.state_history)]
              up == FAdd(old, F01)
              down == FSub(old, F02)
          IN  /\ Len(flow'.state_history) = Len(flow.state_history) + 1
              /\ FLeq(F0, new) /\ FLeq(new, F1)
              /\ last.success => new = (IF FLess(F1, up) THEN F1 ELSE up)
              /\ ~last.success => new = (IF FLess(down, F0) THEN F0 ELSE down)]_vars

\* a failure, then a success: 1.0 - 0.2 + 0.1
C16_Witness ==
    /\ Len(flow.state_history) = 2
    /\ ~flow.state_history[1].success
    /\ flow.state_history[2].success
    /\ flow.engagement_score = FAdd(FSub(F1, F02), F01)
    /\ FLess(flow.engagement_score, F1)

(***************************************************************************)
(* Properties of the context (under Spec and SpecHistory).                 *)
(***************************************************************************)
\* C17: the reasoning chain is append-only over every step of the agent:
\* the chain before the step is a prefix of the chain after it, so no step
\* is removed, moved or changed, and create_reasoning_step puts exactly one
\* step at the end.
C17_ChainIsAppendOnly ==
    [][/\ IsPrefix(reasoning_chain, reasoning_chain')
       /\ (pc = "bias" /\ awaiting)
              => /\ Len(reasoning_chain') = Len(reasoning_chain) + 1
                 /\ reasoning_chain'[Len(reasoning_chain')].step_type
                        = "bias_mitigation"]_vars

\* a message went through boundary analysis, bias mitigation and
\* calibration: three steps and more, in the order they were made
C17_Witness ==
    /\ pc = "returned"
    /\ result.via = "pipeline"
    /\ Len(reasoning_chain) >= 3
    /\ \E i, j \in 1..Len(reasoning_chain) :
           /\ i < j
           /\ reasoning_chain[i].step_type = "bias_mitigation"
           /\ reasoning_chain[j].step_type = "hallucination_prevention"

\* C18: the message history never holds more than 10 entries; it holds the
\* latest entries appended, in the order they arrived, so an append to a
\* full history has dropped the oldest entry.
C18_HistoryIsBounded ==
    /\ Len(message_history) <= Capacity
    /\ Len(message_history) = (IF processed < Capacity THEN processed ELSE Capacity)
    /\ \A i \in 1..Len(message_history) :
           message_history[i][2] = processed - Len(message_history) + i

\* two appends to a full history: the entries 3 to 12 are left
C18_Witness ==
    /\ processed = Capacity + 2
    /\ Len(message_history) = Capacity
    /\ message_history[1][2] = 3
    /\ message_history[Capacity][2] = Capacity + 2

\* C19: every UI session has a context of its own: a step taken for the
\* message of one session leaves the context of every other session (its
\* state, reasoning chain and detected biases) as it was.
C19_SessionsHaveOwnContext ==
    [][\A s \in Sessions :
           (session # NoSession /\ s # session) => ContextOf(s)' = ContextOf(s)]_vars

\* the stages that make one call for a message
OnceStages == {"classify", "draft", "bias", "balance", "search", "gaps", "extract"}

\* the calls of a stage issued for the current message
Issued(log, stage) == Cardinality({i \in 1..Len(log) : log[i] = stage})

\* C20: no call is made again: for one message each of classification,
\* draft, bias mitigation, balancing, search, gap analysis and claim
\* extraction is issued at most once; an assessment is issued for the next
\* claim not yet assessed, and its reply, a failure too, ends that claim's
\* turn; after any reply the message moves on to another stage or claim.
C20_NoCallIsRetried ==
    [][/\ \A stage \in OnceStages : Issued(calls', stage) <= 1
       /\ (pc = "assess" /\ ~awaiting /\ awaiting')
              => claims # <<>> /\ claims' = claims
       /\ (pc = "assess" /\ awaiting) => claims' = Tail(claims)
       /\ (awaiting /\ ~awaiting')
              => \/ pc' # pc
                 \/ pc = "assess" /\ claims' = Tail(claims) /\ claims' # <<>>]_vars

\* a message with two claims: one assessment for each, the second of them
\* failed, and the message returned without another call
C20_Witness ==
    /\ pc = "returned"
    /\ Issued(calls, "assess") = 2
    /\ Issued(calls, "extract") = 1
    /\ lastReply = [stage |-> "assess", kind |-> "none"]

(***************************************************************************)
(* Properties of the boundary checks (under Spec).                         *)
(***************************************************************************)
\* the step that ends handle_query for the current message
BoundaryStep == pc = "classify" /\ pc' # "classify"

\* the repair text for the issue type "confusion"
ConfusionText ==
    <<"I sense there might be some confusion. Let me clarify what I can help with: [...] Could you rephrase your question or let me know which political topic interests you?">>

\* C21: when the classification of a message is in scope and a conversation
\* breakdown is detected on its history and query, process_message returns
\* the 'confusion' repair text and the draft-generation call and every
\* later stage are never reached for the message; a message that returned a
\* repair has made no call past the classification.
C21_BreakdownReturnsRepair ==
    [][/\ (/\ BoundaryStep
           /\ {"reasoning", "confidence", "in_scope"} \subseteq classification'.keys
           /\ classification'.val.in_scope
           /\ detect_conversation_breakdown(history, message))
              => /\ pc' = "returned"
                 /\ result' = Returned("repair", ConfusionText)
       /\ (pc' = "returned" /\ result'.via = "repair")
              => \A i \in 1..Len(calls') : calls'[i] = "classify"
       /\ (pc = "returned" /\ result.via = "repair") => pc' = "idle"]_vars

\* the query says "can you just" after two earlier messages: repaired
C21_Witness ==
    /\ pc = "returned"
    /\ result = Returned("repair", ConfusionText)
    /\ message = QConfused
    /\ classification.val.in_scope
    /\ ~HasPiece(calls, "draft")

\* C22: the context's state is always one of the five ConversationState
\* values and is "initial" until a message has been taken up; a step changes
\* it exactly when handle_query lets the message through to the draft
\* call, and then it is "political_discussion"; a redirect or repair return
\* leaves it alone, and it is still "political_discussion" when the draft
\* call raises.
C22_StateFollowsBoundaryChecks ==
    [][/\ state \in ConversationState
       /\ state' \in ConversationState
       /\ (processed = 0) => state = "initial"
       /\ (BoundaryStep /\ pc' = "draft") => state' = "political_discussion"
       /\ ~(BoundaryStep /\ pc' = "draft") => state' = state
       /\ (BoundaryStep /\ pc' = "returned") => state' = state
       /\ (pc = "draft" /\ pc' = "raised") => state' = "political_discussion"]_vars

\* the draft call of a message that passed the boundary checks has raised
C22_Witness ==
    /\ pc = "raised"
    /\ lastReply.stage = "draft"
    /\ state = "political_discussion"
    /\ Len(reasoning_chain) = 2

\* the step appended one record of the given type to the flow history
Recorded(response_type) ==
    /\ Len(flow'.state_history) = Len(flow.state_history) + 1
    /\ flow'.state_history[Len(flow'.state_history)].response_type = response_type

\* C25: a message for which handle_query recorded a 'redirect' entry with
\* success false is returned as a redirect on that step and is never passed
\* on to the draft-generation call, whatever the scope_type.
C25_RedirectedNeverDrafted ==
    [][(BoundaryStep /\ Recorded("redirect")) =>
          /\ ~flow'.state_history[Len(flow'.state_history)].success
          /\ pc' = "returned"
          /\ result'.via = "redirect"
          /\ ~HasPiece(calls', "draft")]_vars

\* the last step of the reasoning chain
LastStep == reasoning_chain[Len(reasoning_chain)]

\* C26: every response returned by the full pipeline, whatever the query,
\* the search results and the gap analysis were, starts with 'While there
\* is some uncertainty, ' and ends with ' (though this should be verified)',
\* and the hallucination_prevention step recorded for it has confidence 0.5
\* (written "0.50" in its content).
C26_PipelineResponseIsMidBand ==
    (pc = "returned" /\ result.via = "pipeline") =>
        /\ Len(result.value) >= 3
        /\ result.value[1] = "While there is some uncertainty, "
        /\ result.value[Len(result.value)] = " (though this should be verified)"
        /\ LastStep.step_type = "hallucination_prevention"
        /\ LastStep.confidence = F05
        /\ LastStep.content =
               <<"Applied uncertainty calibration (confidence: ", "0.50", ")">>

\* a response returned after the search succeeded and the gap analysis
\* replied
C26_Witness ==
    /\ pc = "returned"
    /\ result.via = "pipeline"
    /\ tavily_key
    /\ api_key
    /\ HasPiece(calls, "search")
    /\ HasPiece(calls, "gaps")
    /\ result.value[1] = "While there is some uncertainty, "

\* the step types of a chain, in order
StepTypes(chain) == [i \in 1..Len(chain) |-> chain[i].step_type]

\* the step appended exactly these step types to the reasoning chain
Appended(types) ==
    /\ Len(reasoning_chain') = Len(reasoning_chain) + Len(types)
    /\ SubSeq(reasoning_chain', 1, Len(reasoning_chain)) = reasoning_chain
    /\ SubSeq(StepTypes(reasoning_chain'), Len(reasoning_chain) + 1,
              Len(reasoning_chain')) = types

\* the steps of a message that went through the whole pipeline
PipelineSteps ==
    IF api_key
      THEN <<"boundary_classification", "query_analysis", "bias_mitigation",
             "hallucination_prevention">>
    ELSE <<"boundary_classification", "query_analysis", "hallucination_prevention">>

\* C27: a message appends its reasoning steps in a fixed order.  The step
\* that returns a redirect or a repair appends boundary_classification
\* alone; the step that lets the message through appends
\* boundary_classification then query_analysis; the bias-mitigation stage,
\* entered exactly when the agent has a bias detector, appends one
\* bias_mitigation step whatever its call replied; the step that returns
\* the pipeline's response appends one hallucination_prevention step; no
\* other step of a message that completes appends anything.  So a returned
\* redirect or repair ends the chain with boundary_classification, and a
\* returned pipeline response ends it with the four steps (three without a
\* bias detector) in order.
C27_StepsInFixedOrder ==
    [][/\ (BoundaryStep /\ pc' = "returned") => Appended(<<"boundary_classification">>)
       /\ (BoundaryStep /\ pc' = "draft")
             => Appended(<<"boundary_classification", "query_analysis">>)
       /\ (pc = "draft" /\ pc' \notin {"draft", "raised"})
             => pc' = (IF api_key THEN "bias" ELSE "search")
       /\ (pc = "bias" /\ pc' # "bias") => Appended(<<"bias_mitigation">>)
       /\ (pc # "returned" /\ pc' = "returned" /\ result'.via = "pipeline")
             => /\ Appended(<<"hallucination_prevention">>)
                /\ LastN(StepTypes(reasoning_chain'), Len(PipelineSteps)) = PipelineSteps
       /\ (pc # "returned" /\ pc' = "returned" /\ result'.via # "pipeline")
             => LastN(StepTypes(reasoning_chain'), 1) = <<"boundary_classification">>
       /\ (/\ ~BoundaryStep
           /\ ~(pc = "bias" /\ pc' # "bias")
           /\ ~(pc # "returned" /\ pc' = "returned"))
             => reasoning_chain' = reasoning_chain]_vars

\* the bias-mitigation call of a message has raised and its step is third
\* in the chain
C27_Witness ==
    /\ pc = "balance"
    /\ lastReply = [stage |-> "bias", kind |-> "error"]
    /\ StepTypes(reasoning_chain) =
           <<"boundary_classification", "query_analysis", "bias_mitigation">>

\* C29: every classification that handle_query consumed carries the
\* fields in_scope, confidence, reasoning and scope_type, whatever the
\* classification service replied, and no message ends with a missing-field
\* error.
C29_ClassificationIsComplete ==
    Classified =>
        /\ {"in_scope", "confidence", "reasoning", "scope_type"}
               \subseteq classification.keys
        /\ ~(pc = "raised" /\ result.error = "KeyError")

\* C30: handle_query appends exactly one flow record when the message
\* returns early, ('redirect', success false) for a redirect and ('repair',
\* success true) for a repair, and total_interactions grows by one with it;
\* a message that goes on through the pipeline leaves state_history and
\* engagement_score as they were, on the boundary step and on every later
\* step.
C30_OneRecordPerEarlyReturn ==
    [][/\ (BoundaryStep /\ pc' = "returned" /\ result'.via = "redirect")
             => /\ Recorded("redirect")
                /\ ~flow'.state_history[Len(flow'.state_history)].success
       /\ (BoundaryStep /\ pc' = "returned" /\ result'.via = "repair")
             => /\ Recorded("repair")
                /\ flow'.state_history[Len(flow'.state_history)].success
       /\ (BoundaryStep /\ pc' = "returned")
             => get_engagement_metrics(flow').total_interactions =
                   get_engagement_metrics(flow).total_interactions + 1
       /\ (BoundaryStep /\ pc' = "draft") => flow' = flow
       /\ ~BoundaryStep => flow' = flow]_vars

(***************************************************************************)
(* Properties of suggest_next_topics (under SpecTopics).                   *)
(***************************************************************************)
\* the lower-cased topic has the key somewhere in it
KeyIn(key, words) == Contains(Text(key), Lower(Spell(words)))

\* C23: suggest_next_topics returns the list of "election" when that key is
\* in the lower-cased topic, else the list of "policy" when that one is, else
\* the list of "supreme_court" when that one is, else the three default
\* suggestions; the list is never empty and the flow manager's history and
\* score are what they were.
C23_FirstMatchingKeyOrDefault ==
    [][calc'.done =>
          /\ calc'.suggestions =
                IF KeyIn("election", calc.topic)
                   THEN <<"How do different voting systems work?",
                          "What are the key policy differences between parties?",
                          "How has campaign finance evolved?">>
                ELSE IF KeyIn("policy", calc.topic)
                   THEN <<"What are the main arguments for and against this policy?",
                          "How do similar policies work in other countries?",
                          "What are the implementation challenges?">>
                ELSE IF KeyIn("supreme_court", calc.topic)
                   THEN <<"How does the judicial nomination process work?",
                          "What are the different judicial philosophies?",
                          "How do court decisions impact policy?">>
                ELSE <<"What recent political development would you like to understand?",
                       "Any policy debate you'd like analyzed from multiple angles?",
                       "Questions about how political processes work?">>
          /\ Len(calc'.suggestions) = 3
          /\ flow' = flow]_vars

\* a topic that names the court, then a policy, then an election gets the
\* election list
C23_Witness ==
    /\ calc.done
    /\ calc.topic = <<"SUPREME_COURT", "Policy", "election">>
    /\ calc.suggestions[1] = "How do different voting systems work?"

SaysPhrase(phrase, query) == Contains(Lower(Text(phrase)), Lower(Text(query)))

\* C28: detect_conversation_breakdown is true exactly when the history has
\* at least 2 entries and either it has at least 3 and its last three user
\* messages are the same, or the current query contains, whatever the
\* letter case, one of "don't understand", "that's not what I asked",
\* "can you just", "why can't you", "this is frustrating".
C28_BreakdownExactly ==
    calc.done =>
        (calc.result <=>
            /\ Len(calc.history) >= 2
            /\ \/ /\ Len(calc.history) >= 3
                  /\ calc.history[Len(calc.history)] = calc.history[Len(calc.history) - 1]
                  /\ calc.history[Len(calc.history)] = calc.history[Len(calc.history) - 2]
               \/ \E phrase \in {"don't understand", "that's not what I asked",
                                 "can you just", "why can't you",
                                 "this is frustrating"} :
                     SaysPhrase(phrase, calc.current_query))
====
